---- MODULE Spec2Model ----
(***************************************************************************)
(* Unified-diff hunk parsing, hunk segmentation, content reconstruction    *)
(* and change classification of src/Source/common/diffHunk.ts.             *)
(*                                                                         *)
(* Texts are TLA+ strings handled character by character (Len, SubSeq,     *)
(* \o).  A JavaScript value that may be undefined is a sequence of length  *)
(* 0 (undefined) or 1 (the value).  A JavaScript number is an integer, or  *)
(* NaN.                                                                    *)
(***************************************************************************)
EXTENDS Integers, Sequences, FiniteSets, TLC

VARIABLES
    pc,                 \* position of the running function
    diffHunkReader,     \* the parseDiffHunk generator: its frame
    diffHunks,          \* parsePatch / getModifiedContentFromDiffHunk: diffHunks
    originalContent,    \* getModifiedContentFromDiffHunk: argument
    left,               \* getModifiedContentFromDiffHunk: left
    right,              \* getModifiedContentFromDiffHunk: right
    lastCommonLine,     \* getModifiedContentFromDiffHunk: lastCommonLine
    lastDiffLineEndsWithNewline,
    diffHunkIter,       \* getModifiedContentFromDiffHunk: diffHunkIter
    modifiedContent,    \* getModifiedContentFromDiffHunk: the returned string
    hunk,               \* splitIntoSmallerHunks: argument
    lineIdx,            \* splitIntoSmallerHunks: position of the for-of loop
    currentHunk,        \* splitIntoSmallerHunks: currentHunk
    nextHunk,           \* splitIntoSmallerHunks: nextHunk
    splitHunks,         \* splitIntoSmallerHunks: splitHunks
    reviews,            \* parseDiff: argument
    reviewIdx,          \* parseDiff: i
    fileChanges,        \* parseDiff: fileChanges
    script,             \* the edit script the input patch was written from
    lineReader,         \* the LineReader generator: text and index
    yielded             \* the lines the LineReader generator has yielded

parseVars == <<diffHunkReader, diffHunks>>
gmcVars == <<originalContent, left, right, lastCommonLine,
             lastDiffLineEndsWithNewline, diffHunkIter, modifiedContent>>
splitVars == <<hunk, lineIdx, currentHunk, nextHunk, splitHunks>>
diffVars == <<reviews, reviewIdx, fileChanges>>
lineVars == <<lineReader, yielded>>
vars == <<pc, parseVars, gmcVars, splitVars, diffVars, script, lineVars>>

(***************************************************************************)
(* Bounds of the input sets.                                               *)
(***************************************************************************)
MaxPatchLines == 4
MaxHunkLines == 6
MaxOrigLines == 4
MaxOrigLen == 4
MaxReviews == 2
MaxHeaderNumber == 2
MaxTextLen == 5

(***************************************************************************)
(* JavaScript strings and numbers.                                         *)
(***************************************************************************)
NaN == -1000000

Ch(s, k) == SubSeq(s, k, k)

\* String.prototype.substr(start, length), start within the string
Substr(text, start, length) ==
    LET end == IF start + length > Len(text) THEN Len(text) ELSE start + length
    IN  IF length <= 0 \/ start >= Len(text) THEN "" ELSE SubSeq(text, start + 1, end)

\* String.prototype.indexOf(c, from) for a one-character c; indexes from 0
RECURSIVE IndexOf(_, _, _)
IndexOf(text, c, from) ==
    IF from >= Len(text) THEN -1
    ELSE IF Ch(text, from + 1) = c THEN from
    ELSE IndexOf(text, c, from + 1)

Digits == "0123456789"

IsDigit(c) == \E d \in 1..10 : Ch(Digits, d) = c

DigitValue(c) == (CHOOSE d \in 1..10 : Ch(Digits, d) = c) - 1

\* Number(s) of a string of decimal digits
RECURSIVE DigitsToNumber(_)
DigitsToNumber(s) ==
    IF Len(s) = 0 THEN 0
    ELSE 10 * DigitsToNumber(SubSeq(s, 1, Len(s) - 1)) + DigitValue(Ch(s, Len(s)))

\* Number(m) of a capture group: Number(undefined) is NaN
Number(m) == IF m = <<>> THEN NaN ELSE DigitsToNumber(m[1])

\* x || 1 with NaN taken for truthy
OrOneOfZero(x) == IF x = 0 THEN 1 ELSE x

\* x || 1 on numbers: 0 and NaN are falsy
OrOne(x) == IF x = NaN \/ x = 0 THEN 1 ELSE x

\* x + n on numbers
Plus(x, n) == IF x = NaN THEN NaN ELSE x + n

\* a count that finds no carriage return
countNoCarriageReturns(text) == 0

RECURSIVE countCarriageReturns(_)
countCarriageReturns(text) ==
    IF Len(text) = 0 THEN 0
    ELSE (IF Ch(text, 1) = "\r" THEN 1 ELSE 0) + countCarriageReturns(Tail(text))

(***************************************************************************)
(* LineReader: one call of next() on the generator whose position is index.*)
(***************************************************************************)
\* next() with the carriage return before the line feed left in the line
LineReaderNextKeepCR(text, index) ==
    IF index # -1 /\ index < Len(text)
    THEN LET found == IndexOf(text, "\n", index)
             endIndex == IF found # -1 THEN found ELSE Len(text)
         IN  [done |-> FALSE,
              value |-> Substr(text, index, endIndex - index),
              index |-> IF found # -1 THEN found + 1 ELSE found]
    ELSE [done |-> TRUE, value |-> "", index |-> index]

LineReaderNext(text, index) ==
    IF index # -1 /\ index < Len(text)
    THEN LET startIndex == index
             found == IndexOf(text, "\n", index)
             endIndex == IF found # -1 THEN found ELSE Len(text)
             length == IF found # -1 /\ found > 0 /\ Ch(text, found) = "\r"
                       THEN endIndex - startIndex - 1
                       ELSE endIndex - startIndex
         IN  [done |-> FALSE,
              value |-> Substr(text, startIndex, length),
              index |-> IF found # -1 THEN found + 1 ELSE found]
    ELSE [done |-> TRUE, value |-> "", index |-> index]

\* every line LineReader yields from position index on
RECURSIVE LinesFrom(_, _)
LinesFrom(text, index) ==
    LET r == LineReaderNext(text, index)
    IN  IF r.done THEN <<>> ELSE <<r.value>> \o LinesFrom(text, r.index)

(***************************************************************************)
(* DIFF_HUNK_HEADER = /^@@ \-(\d+)(,(\d+))?( \+(\d+)(,(\d+)?)?)? @@/       *)
(***************************************************************************)
\* the literal lit stands at position p (from 1) of s
HasAt(s, p, lit) ==
    /\ p + Len(lit) - 1 <= Len(s)
    /\ SubSeq(s, p, p + Len(lit) - 1) = lit

\* the first position from p on that holds no digit: the end of a greedy \d*
RECURSIVE DigitsEnd(_, _)
DigitsEnd(s, p) ==
    IF p <= Len(s) /\ IsDigit(Ch(s, p)) THEN DigitsEnd(s, p + 1) ELSE p

\* ( \+(\d+)(,(\d+)?)?)? @@ from position p4 on, the digits of group 5 ending
\* before e5 and those of group 7 before e7: whether it matches, groups 5 and 7
HeaderNewRange(line, p4, e5, e7) ==
    LET g4 == HasAt(line, p4, " +") /\ e5 > p4 + 2
        withCount == g4 /\ HasAt(line, e5, ",") /\ HasAt(line, e7, " @@")
        withoutCount == g4 /\ HasAt(line, e5, " @@")
    IN  [matched |-> withCount \/ withoutCount \/ HasAt(line, p4, " @@"),
         m5 |-> IF withCount \/ withoutCount
                THEN <<SubSeq(line, p4 + 2, e5 - 1)>> ELSE <<>>,
         m7 |-> IF withCount /\ e7 > e5 + 1
                THEN <<SubSeq(line, e5 + 1, e7 - 1)>> ELSE <<>>]

HeaderNewRangeAt(line, p4, e5) ==
    HeaderNewRange(line, p4, e5, DigitsEnd(line, e5 + 1))

\* (,(\d+))? from position e1 on, its digits ending before e3, and the rest
HeaderOldCount(line, e1, e3) ==
    IF HasAt(line, e1, ",") /\ e3 > e1 + 1
    THEN [m3 |-> <<SubSeq(line, e1 + 1, e3 - 1)>>,
          rest |-> HeaderNewRangeAt(line, e3, DigitsEnd(line, e3 + 2))]
    ELSE [m3 |-> <<>>,
          rest |-> HeaderNewRangeAt(line, e1, DigitsEnd(line, e1 + 2))]

\* ^@@ \-(\d+) with the digits of group 1 ending before e1, and the rest
HeaderOldStart(line, e1, tail) ==
    IF HasAt(line, 1, "@@ -") /\ e1 > 5 /\ tail.rest.matched
    THEN [matched |-> TRUE, m1 |-> <<SubSeq(line, 5, e1 - 1)>>, m3 |-> tail.m3,
          m5 |-> tail.rest.m5, m7 |-> tail.rest.m7]
    ELSE [matched |-> FALSE, m1 |-> <<>>, m3 |-> <<>>, m5 |-> <<>>, m7 |-> <<>>]

HeaderExecAt(line, e1) ==
    HeaderOldStart(line, e1, HeaderOldCount(line, e1, DigitsEnd(line, e1 + 1)))

\* DIFF_HUNK_HEADER.exec(line): whether it matches, and capture groups 1, 3, 5, 7
HeaderExec(line) == HeaderExecAt(line, DigitsEnd(line, 5))

\* the kind of a line, with the empty line taken for a Context line
getDiffChangeTypeEmptyAsContext(text) ==
    IF Len(text) = 0 THEN "Context"
    ELSE CASE Ch(text, 1) = " " -> "Context"
           [] Ch(text, 1) = "+" -> "Add"
           [] Ch(text, 1) = "-" -> "Delete"
           [] OTHER -> "Control"

getDiffChangeType(text) ==
    IF Len(text) = 0 THEN "Control"
    ELSE CASE Ch(text, 1) = " " -> "Context"
           [] Ch(text, 1) = "+" -> "Add"
           [] Ch(text, 1) = "-" -> "Delete"
           [] OTHER -> "Control"

\* new DiffLine(type, oldLineNumber, newLineNumber, positionInHunk, raw)
DiffLine(type, oldLineNumber, newLineNumber, positionInHunk, raw) ==
    [type |-> type, oldLineNumber |-> oldLineNumber, newLineNumber |-> newLineNumber,
     positionInHunk |-> positionInHunk, raw |-> raw, endwithLineBreak |-> TRUE]

\* DiffLine.text
LineText(line) == Substr(line.raw, 1, Len(line.raw))

\* new DiffHunk(oldLineNumber, oldLength, newLineNumber, newLength, positionInHunk)
DiffHunk(oldLineNumber, oldLength, newLineNumber, newLength, positionInHunk) ==
    [oldLineNumber |-> oldLineNumber, oldLength |-> oldLength,
     newLineNumber |-> newLineNumber, newLength |-> newLength,
     positionInHunk |-> positionInHunk, diffLines |-> <<>>]

(***************************************************************************)
(* parseDiffHunk.  The generator's frame is a record: the patch text, the  *)
(* LineReader's index, the open hunk, the counter and the two cursors; pc  *)
(* is "run" inside the loop, "final" once the last hunk was yielded, and   *)
(* "done" after the return.                                                *)
(***************************************************************************)
parseDiffHunk(diffHunkPatch) ==
    [text |-> diffHunkPatch, index |-> 0, diffHunk |-> <<>>,
     positionInHunk |-> -1, oldLine |-> -1, newLine |-> -1, pc |-> "run"]

\* the line the loop is about to handle, if there is one
CurrentLine(g) == LineReaderNext(g.text, g.index)

\* if (positionInHunk === -1) positionInHunk = 0, with the counter reset at
\* every header instead
StartPositionReset(positionInHunk) == 0

\* if (positionInHunk === -1) positionInHunk = 0
StartPosition(positionInHunk) ==
    IF positionInHunk = -1 THEN 0 ELSE positionInHunk

\* a header line, with the yielded hunk object kept as the open hunk
HeaderBranchReusesHunk(g, line, m) ==
    LET positionInHunk == StartPosition(g.positionInHunk)
        opened == IF g.diffHunk # <<>> THEN g.diffHunk[1]
                  ELSE DiffHunk(Number(m.m1), OrOne(Number(m.m3)),
                                Number(m.m5), OrOne(Number(m.m7)), positionInHunk)
    IN  [yield |-> g.diffHunk,
         frame |-> [g EXCEPT
            !.diffHunk = <<[opened EXCEPT !.diffLines = Append(@,
                             DiffLine("Control", -1, -1, positionInHunk, line))]>>,
            !.positionInHunk = positionInHunk,
            !.oldLine = Number(m.m1),
            !.newLine = Number(m.m5)]]

\* a header line, with the new hunk left without its Control line
HeaderBranchNoControlLine(g, line, m) ==
    LET positionInHunk == StartPosition(g.positionInHunk)
    IN  [yield |-> g.diffHunk,
         frame |-> [g EXCEPT
            !.diffHunk = <<DiffHunk(Number(m.m1), OrOne(Number(m.m3)),
                                    Number(m.m5), OrOne(Number(m.m7)),
                                    positionInHunk)>>,
            !.positionInHunk = positionInHunk,
            !.oldLine = Number(m.m1),
            !.newLine = Number(m.m5)]]

\* a header line: the open hunk is yielded and a new one is opened
HeaderBranch(g, line, m) ==
    LET positionInHunk == StartPosition(g.positionInHunk)
        oriStartLine == Number(m.m1)
        oriLen == OrOne(Number(m.m3))
        newStartLine == Number(m.m5)
        newLen == OrOne(Number(m.m7))
        opened == DiffHunk(oriStartLine, oriLen, newStartLine, newLen, positionInHunk)
    IN  [yield |-> g.diffHunk,
         frame |-> [g EXCEPT
            !.diffHunk = <<[opened EXCEPT !.diffLines =
                             <<DiffLine("Control", -1, -1, positionInHunk, line)>>]>>,
            !.positionInHunk = positionInHunk,
            !.oldLine = oriStartLine,
            !.newLine = newStartLine]]

\* the old line number of a stored line, with Add and Delete taken for each other
StoredOldLineNumberSwapped(type, oldLine) == IF type # "Delete" THEN oldLine ELSE -1

\* type !== DiffChangeType.Add ? oldLine : -1
StoredOldLineNumber(type, oldLine) == IF type # "Add" THEN oldLine ELSE -1

\* type !== DiffChangeType.Delete ? newLine : -1
StoredNewLineNumber(type, newLine) == IF type # "Delete" THEN newLine ELSE -1

\* a line that is no header, while a hunk is open
BodyBranch(g, line) ==
    LET type == getDiffChangeType(line)
        open == g.diffHunk[1]
        n == Len(open.diffLines)
        lineCount == 1 + countCarriageReturns(line)
    IN  IF type = "Control"
        THEN [g EXCEPT !.diffHunk =
                IF n > 0
                THEN <<[open EXCEPT !.diffLines[n].endwithLineBreak = FALSE]>>
                ELSE <<open>>]
        ELSE [g EXCEPT
                !.diffHunk = <<[open EXCEPT !.diffLines = Append(@,
                    DiffLine(type,
                             StoredOldLineNumber(type, g.oldLine),
                             StoredNewLineNumber(type, g.newLine),
                             g.positionInHunk, line))]>>,
                !.oldLine = IF type \in {"Context", "Delete"}
                            THEN Plus(@, lineCount) ELSE @,
                !.newLine = IF type \in {"Context", "Add"}
                            THEN Plus(@, lineCount) ELSE @]

\* if (positionInHunk !== -1) ++positionInHunk
AdvancePosition(positionInHunk) ==
    IF positionInHunk # -1 THEN positionInHunk + 1 ELSE positionInHunk

\* the branch a scanned line takes: the hunk yielded (if any), the frame after
ScanBranch(g, line, m) ==
    IF m.matched THEN HeaderBranch(g, line, m)
    ELSE IF g.diffHunk # <<>>
         THEN [yield |-> <<>>, frame |-> BodyBranch(g, line)]
         ELSE [yield |-> <<>>, frame |-> g]

\* the end of a turn: the counter advances and the next line is fetched
ScanAdvance(step, index) ==
    [yield |-> step.yield,
     frame |-> [step.frame EXCEPT
                  !.index = index,
                  !.positionInHunk = AdvancePosition(@)]]

ScanLineOf(g, itr) ==
    ScanAdvance(ScanBranch(g, itr.value, HeaderExec(itr.value)), itr.index)

\* one turn of the while loop: the hunk it yields (if any) and the frame after it
ScanLine(g) == ScanLineOf(g, CurrentLine(g))

\* the end of the generator with the open hunk left unyielded
ScanEndNoYield(g) == [yield |-> <<>>, frame |-> [g EXCEPT !.pc = "done"]]

\* after the loop: the open hunk is yielded, then the generator returns
ScanEnd(g) ==
    IF g.pc = "run" /\ g.diffHunk # <<>>
    THEN [yield |-> g.diffHunk, frame |-> [g EXCEPT !.pc = "final"]]
    ELSE [yield |-> <<>>, frame |-> [g EXCEPT !.pc = "done"]]

\* what next() returns for a yield, or for the return when nothing is yielded
IterResult(s) == [done |-> s.yield = <<>>, value |-> s.yield, frame |-> s.frame]

\* diffHunkReader.next(): runs the generator to its next yield or to its return
RECURSIVE ReaderNext(_)
RECURSIVE ReaderResume(_)
ReaderResume(s) == IF s.yield # <<>> THEN IterResult(s) ELSE ReaderNext(s.frame)

ReaderNext(g) ==
    IF g.pc = "run" /\ ~CurrentLine(g).done
    THEN ReaderResume(ScanLine(g))
    ELSE IterResult(ScanEnd(g))

\* the hunks from the result n of next() on
RECURSIVE DrainReader(_)
RECURSIVE DrainFrom(_)
DrainFrom(n) == IF n.done THEN <<>> ELSE n.value \o DrainReader(n.frame)

\* parsePatch(patch): every hunk the generator yields, in order
DrainReader(g) == DrainFrom(ReaderNext(g))

parsePatch(patch) == DrainReader(parseDiffHunk(patch))

(***************************************************************************)
(* Input patches: up to MaxPatchLines lines drawn from PatchLineChoices,   *)
(* written with LF or with CRLF line ends.                                 *)
(***************************************************************************)
PatchLineChoices ==
    {"@@ -1,2 +1,2 @@", "@@ -5 +5 @@ f()", "@@ -3 @@", "@@ 1 +1 @@",
     " a", "+b\rc", "-c", "\\ No newline", ""}


\* the lines joined, each but the last followed by eol, the last by lastEnd
RECURSIVE WriteLines(_, _, _)
WriteLines(lines, eol, lastEnd) ==
    IF Len(lines) = 0 THEN ""
    ELSE IF Len(lines) = 1 THEN lines[1] \o lastEnd
    ELSE lines[1] \o eol \o WriteLines(Tail(lines), eol, lastEnd)

\* LF line ends with an unterminated last line, or CRLF with a terminated one
PatchesOf(lineSeqs) ==
    {WriteLines(ls, "\n", "") : ls \in lineSeqs}
    \cup {WriteLines(ls, "\r\n", "\r\n") : ls \in lineSeqs}

PatchInputs(maxLines) ==
    PatchesOf(UNION {[1..n -> PatchLineChoices] : n \in 0..maxLines})

(***************************************************************************)
(* Values of the variables a specification does not use.                   *)
(***************************************************************************)
IdleParse == diffHunkReader = parseDiffHunk("") /\ diffHunks = <<>>
IdleGmc ==
    /\ originalContent = ""
    /\ left = <<>>
    /\ right = <<>>
    /\ lastCommonLine = 0
    /\ lastDiffLineEndsWithNewline = TRUE
    /\ diffHunkIter = [done |-> TRUE, value |-> <<>>]
    /\ modifiedContent = <<>>
IdleSplit ==
    /\ hunk = DiffHunk(0, 0, 0, 0, 0)
    /\ lineIdx = 0
    /\ currentHunk = <<>>
    /\ nextHunk = <<>>
    /\ splitHunks = <<>>
IdleDiff == reviews = <<>> /\ reviewIdx = 0 /\ fileChanges = <<>>
IdleLines == lineReader = [text |-> "", index |-> 0] /\ yielded = <<>>

(***************************************************************************)
(* parsePatch(patch), one scanned line of the generator at a time.         *)
(***************************************************************************)
InitParse ==
    /\ pc = "parsePatch"
    /\ \E patch \in PatchInputs(MaxPatchLines) : diffHunkReader = parseDiffHunk(patch)
    /\ diffHunks = <<>>
    /\ IdleGmc /\ IdleSplit /\ IdleDiff /\ IdleLines
    /\ script = <<>>

\* the generator scans one line; parsePatch pushes the hunk it yields, if any
ParseLine ==
    /\ pc = "parsePatch"
    /\ diffHunkReader.pc = "run"
    /\ ~CurrentLine(diffHunkReader).done
    /\ LET s == ScanLine(diffHunkReader)
       IN  /\ diffHunkReader' = s.frame
           /\ diffHunks' = diffHunks \o s.yield
    /\ UNCHANGED <<pc, gmcVars, splitVars, diffVars, script, lineVars>>

\* the input is exhausted: the open hunk is yielded and pushed
ParseLastHunk ==
    /\ pc = "parsePatch"
    /\ diffHunkReader.pc = "run"
    /\ CurrentLine(diffHunkReader).done
    /\ LET s == ScanEnd(diffHunkReader)
       IN  /\ diffHunkReader' = s.frame
           /\ diffHunks' = diffHunks \o s.yield
           /\ pc' = IF s.frame.pc = "done" THEN "done" ELSE pc
    /\ UNCHANGED <<gmcVars, splitVars, diffVars, script, lineVars>>

\* the generator returns and parsePatch returns diffHunks
ParseReturn ==
    /\ pc = "parsePatch"
    /\ diffHunkReader.pc = "final"
    /\ diffHunkReader' = ScanEnd(diffHunkReader).frame
    /\ pc' = "done"
    /\ UNCHANGED <<diffHunks, gmcVars, splitVars, diffVars, script, lineVars>>

NextParse == ParseLine \/ ParseLastHunk \/ ParseReturn

SpecParse == InitParse /\ [][NextParse]_vars

(***************************************************************************)
(* splitIntoSmallerHunks.                                                  *)
(***************************************************************************)
\* a fresh hunk that does not take the line numbers of its first line
newHunkUnanchored(fromLine) ==
    [diffLines |-> <<>>, newLength |-> 0, oldLength |-> 0,
     oldLineNumber |-> 0, newLineNumber |-> 0, positionInHunk |-> 0]

newHunk(fromLine) ==
    [diffLines |-> <<>>, newLength |-> 0, oldLength |-> 0,
     oldLineNumber |-> fromLine.oldLineNumber,
     newLineNumber |-> fromLine.newLineNumber,
     positionInHunk |-> 0]

addLineToHunk(h, line) ==
    [h EXCEPT
        !.diffLines = Append(@, line),
        !.oldLength = IF line.type \in {"Delete", "Context"} THEN @ + 1 ELSE @,
        !.newLength = IF line.type \in {"Add", "Context"} THEN @ + 1 ELSE @]

hunkHasChanges(h) ==
    \E k \in 1..Len(h.diffLines) : h.diffLines[k].type # "Context"

\* the split test with the hunk's first line looked at instead of its last
hunkHasSandwichedChangesFirst(h) ==
    hunkHasChanges(h) /\ h.diffLines[1].type = "Context"

hunkHasSandwichedChanges(h) ==
    hunkHasChanges(h) /\ h.diffLines[Len(h.diffLines)].type = "Context"

\* a Context line that is not given to the next hunk
ContextLineNoShare(cur, nxt, line) ==
    [currentHunk |-> <<addLineToHunk(IF cur = <<>> THEN newHunk(line) ELSE cur[1], line)>>,
     nextHunk |-> nxt]

\* a Context line that opens no hunk when none is open
ContextLineNoOpen(cur, nxt, line) ==
    IF cur = <<>> THEN [currentHunk |-> cur, nextHunk |-> nxt]
    ELSE LET added == addLineToHunk(cur[1], line)
         IN  [currentHunk |-> <<added>>,
              nextHunk |-> IF hunkHasSandwichedChanges(added)
                           THEN <<addLineToHunk(IF nxt = <<>> THEN newHunk(line)
                                                ELSE nxt[1], line)>>
                           ELSE nxt]

\* the loop body for a Context line: currentHunk and nextHunk after it
ContextLine(cur, nxt, line) ==
    LET added == addLineToHunk(IF cur = <<>> THEN newHunk(line) ELSE cur[1], line)
    IN  [currentHunk |-> <<added>>,
         nextHunk |-> IF hunkHasSandwichedChanges(added)
                      THEN <<addLineToHunk(IF nxt = <<>> THEN newHunk(line)
                                           ELSE nxt[1], line)>>
                      ELSE nxt]

(***************************************************************************)
(* The hunks splitIntoSmallerHunks is given: the hunk parsePatch returns   *)
(* for a patch of one header and up to MaxHunkLines lines, each a Context, *)
(* an Add or a Delete line.                                                *)
(***************************************************************************)
\* the decimal digits of n >= 0
RECURSIVE NumStr(_)
NumStr(n) ==
    IF n < 10 THEN Ch(Digits, n + 1)
    ELSE NumStr(n \div 10) \o Ch(Digits, (n % 10) + 1)

WriteHeader(oldStart, oldCount, newStart, newCount) ==
    "@@ -" \o NumStr(oldStart) \o "," \o NumStr(oldCount)
    \o " +" \o NumStr(newStart) \o "," \o NumStr(newCount) \o " @@"

CountOf(prefixes, set) == Cardinality({k \in 1..Len(prefixes) : prefixes[k] \in set})

\* the patch of one hunk whose lines carry these prefixes
OneHunkPatch(prefixes) ==
    LET oldCount == CountOf(prefixes, {" ", "-"})
        newCount == CountOf(prefixes, {" ", "+"})
        header == WriteHeader(IF oldCount = 0 THEN 0 ELSE 1, oldCount,
                              IF newCount = 0 THEN 0 ELSE 1, newCount)
    IN  WriteLines(<<header>> \o [k \in 1..Len(prefixes) |-> prefixes[k] \o "x"],
                   "\n", "\n")

HunkInputs(maxLines) ==
    {parsePatch(OneHunkPatch(prefixes))[1] :
        prefixes \in UNION {[1..n -> {" ", "+", "-"}] : n \in 0..maxLines}}

InitSplit ==
    /\ pc = "splitIntoSmallerHunks"
    /\ hunk \in HunkInputs(MaxHunkLines)
    /\ lineIdx = 0
    /\ currentHunk = <<>>
    /\ nextHunk = <<>>
    /\ splitHunks = <<>>
    /\ IdleParse /\ IdleGmc /\ IdleDiff /\ IdleLines
    /\ script = <<>>

\* the line the for-of loop is about to handle
SplitLine == hunk.diffLines[lineIdx + 1]

InLoop == pc = "splitIntoSmallerHunks" /\ lineIdx < Len(hunk.diffLines)

\* line.type === DiffChangeType.Context
SplitContext ==
    /\ InLoop
    /\ SplitLine.type = "Context"
    /\ LET r == ContextLine(currentHunk, nextHunk, SplitLine)
       IN  currentHunk' = r.currentHunk /\ nextHunk' = r.nextHunk
    /\ lineIdx' = lineIdx + 1
    /\ UNCHANGED <<pc, hunk, splitHunks, parseVars, gmcVars, diffVars, script, lineVars>>

\* else if (currentHunk): a sandwiched hunk is pushed and nextHunk takes its
\* place; an Add or Delete line is added to currentHunk, which throws a
\* TypeError when currentHunk is undefined
SplitChange ==
    /\ InLoop
    /\ SplitLine.type # "Context"
    /\ currentHunk # <<>>
    /\ LET flush == hunkHasSandwichedChanges(currentHunk[1])
           cur == IF flush THEN nextHunk ELSE currentHunk
           isChange == SplitLine.type \in {"Delete", "Add"}
       IN  /\ splitHunks' = IF flush THEN Append(splitHunks, currentHunk[1])
                            ELSE splitHunks
           /\ nextHunk' = IF flush THEN <<>> ELSE nextHunk
           /\ IF isChange /\ cur = <<>>
              THEN pc' = "TypeError" /\ currentHunk' = cur
              ELSE /\ pc' = pc
                   /\ currentHunk' = IF isChange
                                     THEN <<addLineToHunk(cur[1], SplitLine)>>
                                     ELSE cur
    /\ lineIdx' = lineIdx + 1
    /\ UNCHANGED <<hunk, parseVars, gmcVars, diffVars, script, lineVars>>

\* a line that is not Context while no hunk is open: neither branch is taken
SplitSkip ==
    /\ InLoop
    /\ SplitLine.type # "Context"
    /\ currentHunk = <<>>
    /\ lineIdx' = lineIdx + 1
    /\ UNCHANGED <<pc, hunk, currentHunk, nextHunk, splitHunks,
                   parseVars, gmcVars, diffVars, script, lineVars>>

\* after the loop: if (currentHunk) splitHunks.push(currentHunk); return
SplitReturn ==
    /\ pc = "splitIntoSmallerHunks"
    /\ lineIdx = Len(hunk.diffLines)
    /\ splitHunks' = splitHunks \o currentHunk
    /\ pc' = "done"
    /\ UNCHANGED <<hunk, lineIdx, currentHunk, nextHunk, parseVars, gmcVars,
                   diffVars, script, lineVars>>

NextSplit == SplitContext \/ SplitChange \/ SplitSkip \/ SplitReturn

SpecSplit == InitSplit /\ [][NextSplit]_vars

(***************************************************************************)
(* getModifiedContentFromDiffHunk.                                         *)
(***************************************************************************)
\* text.split(/\r?\n/) from position p (from 1) on
RECURSIVE SplitLinesFrom(_, _)
SplitLinesFrom(text, p) ==
    LET found == IndexOf(text, "\n", p - 1)
    IN  IF found = -1 THEN <<SubSeq(text, p, Len(text))>>
        ELSE LET end == IF found >= p /\ Ch(text, found) = "\r"
                        THEN found - 1 ELSE found
             IN  <<SubSeq(text, p, end)>> \o SplitLinesFrom(text, found + 2)

SplitLines(text) == SplitLinesFrom(text, 1)

\* lines.join("\n")
RECURSIVE Join(_)
Join(lines) ==
    IF Len(lines) = 0 THEN ""
    ELSE IF Len(lines) = 1 THEN lines[1]
    ELSE lines[1] \o "\n" \o Join(Tail(lines))

\* left[j - 1]; an index past the end reads undefined, which join writes as ""
LeftAt(ls, j) == IF j >= 1 /\ j <= Len(ls) THEN ls[j] ELSE ""

\* the lines pushed by: for (j = from; j <= to; j++) right.push(left[j - 1])
CopyLeft(ls, from, to) == [k \in 1..(to - from + 1) |-> LeftAt(ls, from + k - 1)]

\* the copy before a hunk, begun one line late
CopyBeforeHunkLate(ls, lastCommon, oriStartLine) ==
    CopyLeft(ls, lastCommon + 2, oriStartLine - 1)

\* for (j = lastCommonLine + 1; j < oriStartLine; j++) right.push(left[j - 1])
CopyBeforeHunk(ls, lastCommon, oriStartLine) ==
    CopyLeft(ls, lastCommon + 1, oriStartLine - 1)

\* what a hunk's lines push to right: the text of each Add and Context line
RECURSIVE HunkRightLines(_)
HunkRightLines(diffLines) ==
    IF Len(diffLines) = 0 THEN <<>>
    ELSE (IF diffLines[1].type \in {"Delete", "Control"} THEN <<>>
          ELSE <<LineText(diffLines[1])>>)
         \o HunkRightLines(Tail(diffLines))

\* the backward search for the last line that is no Delete: its
\* endwithLineBreak, or the flag as it was when every line is a Delete
RECURSIVE LastNonDeleteEndsWithNewline(_, _, _)
LastNonDeleteEndsWithNewline(diffLines, k, flag) ==
    IF k < 1 THEN flag
    ELSE IF diffLines[k].type # "Delete" THEN diffLines[k].endwithLineBreak
    ELSE LastNonDeleteEndsWithNewline(diffLines, k - 1, flag)

\* the lines pushed after the last hunk, with "" pushed whatever is left
TailLinesBlank(ls, lastCommon, endsWithNewline) ==
    IF endsWithNewline
    THEN (IF lastCommon < Len(ls) THEN CopyLeft(ls, lastCommon + 1, Len(ls)) ELSE <<>>)
         \o <<"">>
    ELSE <<>>

\* the lines pushed after the last hunk
TailLines(ls, lastCommon, endsWithNewline) ==
    IF endsWithNewline
    THEN IF lastCommon < Len(ls) THEN CopyLeft(ls, lastCommon + 1, Len(ls))
         ELSE <<"">>
    ELSE <<>>

\* the state after lines 334 to 346, first being what the first
\* diffHunkReader.next() returns
GmcStartWith(content, first) ==
    /\ pc = "getModifiedContentFromDiffHunk"
    /\ originalContent = content
    /\ left = SplitLines(content)
    /\ diffHunkReader = first.frame
    /\ diffHunkIter = [done |-> first.done, value |-> first.value]
    /\ diffHunks = <<>>
    /\ right = <<>>
    /\ lastCommonLine = 0
    /\ lastDiffLineEndsWithNewline = TRUE
    /\ modifiedContent = <<>>

GmcStart(content, patch) == GmcStartWith(content, ReaderNext(parseDiffHunk(patch)))

\* the loop body for diffHunk, next being what diffHunkReader.next() returns
GmcHunkWith(diffHunk, next) ==
    /\ diffHunks' = Append(diffHunks, diffHunk)
    /\ right' = right \o CopyBeforeHunk(left, lastCommonLine, diffHunk.oldLineNumber)
                      \o HunkRightLines(diffHunk.diffLines)
    /\ lastCommonLine' = diffHunk.oldLineNumber + diffHunk.oldLength - 1
    /\ diffHunkReader' = next.frame
    /\ diffHunkIter' = [done |-> next.done, value |-> next.value]
    /\ lastDiffLineEndsWithNewline' =
          IF next.done
          THEN LastNonDeleteEndsWithNewline(diffHunk.diffLines,
                   Len(diffHunk.diffLines), lastDiffLineEndsWithNewline)
          ELSE lastDiffLineEndsWithNewline

\* one turn of the while loop
GmcHunk ==
    /\ pc = "getModifiedContentFromDiffHunk"
    /\ ~diffHunkIter.done
    /\ GmcHunkWith(diffHunkIter.value[1], ReaderNext(diffHunkReader))
    /\ UNCHANGED <<pc, originalContent, left, modifiedContent,
                   splitVars, diffVars, script, lineVars>>

\* after the loop: the rest of left, or one "", and the join
GmcReturn ==
    /\ pc = "getModifiedContentFromDiffHunk"
    /\ diffHunkIter.done
    /\ right' = right \o TailLines(left, lastCommonLine, lastDiffLineEndsWithNewline)
    /\ modifiedContent' = <<Join(right')>>
    /\ pc' = "done"
    /\ UNCHANGED <<originalContent, left, lastCommonLine, lastDiffLineEndsWithNewline,
                   diffHunkIter, parseVars, splitVars, diffVars, script, lineVars>>

NextGmc == GmcHunk \/ GmcReturn

(***************************************************************************)
(* The originals and patches getModifiedContentFromDiffHunk is given.      *)
(*                                                                         *)
(* An edit script says, for each line of an original of up to MaxOrigLines *)
(* lines, whether the patch leaves it outside every hunk ("K"), shows it   *)
(* as Context ("C") or as Delete ("D"), and whether an Add line stands     *)
(* before or after it.  Each maximal run of "C" and "D" lines is one hunk, *)
(* written with the header a diff tool writes for it.  The original ends   *)
(* with a line break or not, and the last hunk carries a no-newline marker *)
(* after its last Delete line ("old"), after its last other line ("new"),  *)
(* both or none.  Line k of the original reads as the k-th letter, the Add *)
(* line beside it as the k-th capital.                                     *)
(***************************************************************************)
Letters == "abcdefgh"
Capitals == "ABCDEFGH"
NoNewlineMarker == "\\ No newline at end of file"

ScriptOps ==
    {[op |-> "K", add |-> "none"]}
    \cup [op : {"C", "D"}, add : {"none", "before", "after"}]

\* an Add line before a line is written only at the start of a hunk; further
\* in, it is the Add line after the line above
ScriptOpSeqs(maxLines) ==
    {ops \in UNION {[1..n -> ScriptOps] : n \in 1..maxLines} :
        \A k \in 2..Len(ops) : ops[k].add = "before" => ops[k - 1].op = "K"}

\* patches with CRLF line ends are written for the plain case only
ScriptInputs(maxLines) ==
    {sc \in [kind : {"hunks"},
             ops : ScriptOpSeqs(maxLines),
             origBreak : BOOLEAN,
             markers : SUBSET {"old", "new"},
             eol : {"\n", "\r\n"}] :
        sc.eol = "\n" \/ (sc.origBreak /\ sc.markers = {})}

\* the script of an input that was not written from one
NoScript == [kind |-> "free", ops |-> <<>>, origBreak |-> FALSE, markers |-> {},
             eol |-> "\n"]

OriginalOf(sc) ==
    Join([k \in 1..Len(sc.ops) |-> Ch(Letters, k)])
    \o (IF sc.origBreak THEN "\n" ELSE "")

\* the patch lines of original line k
OpLines(ops, k) ==
    (IF ops[k].add = "before" THEN <<"+" \o Ch(Capitals, k)>> ELSE <<>>)
    \o <<(IF ops[k].op = "C" THEN " " ELSE "-") \o Ch(Letters, k)>>
    \o (IF ops[k].add = "after" THEN <<"+" \o Ch(Capitals, k)>> ELSE <<>>)

RECURSIVE BodyLines(_, _, _)
BodyLines(ops, k, e) ==
    IF k > e THEN <<>> ELSE OpLines(ops, k) \o BodyLines(ops, k + 1, e)

\* the lines of the new file that original line k stands for
NewLinesOf(ops, k) ==
    (IF ops[k].add = "before" THEN <<Ch(Capitals, k)>> ELSE <<>>)
    \o (IF ops[k].op = "D" THEN <<>> ELSE <<Ch(Letters, k)>>)
    \o (IF ops[k].add = "after" THEN <<Ch(Capitals, k)>> ELSE <<>>)

RECURSIVE NewLines(_, _, _)
NewLines(ops, k, e) ==
    IF k > e THEN <<>> ELSE NewLinesOf(ops, k) \o NewLines(ops, k + 1, e)

\* the last line of the hunk that begins at line k
RECURSIVE HunkEnd(_, _)
HunkEnd(ops, k) ==
    IF k < Len(ops) /\ ops[k + 1].op # "K" THEN HunkEnd(ops, k + 1) ELSE k

\* the greatest index of body whose line is (is not) a Delete line, or 0
LastIndex(body, delete) ==
    LET hits == {k \in 1..Len(body) : (Ch(body[k], 1) = "-") = delete}
    IN  IF hits = {} THEN 0 ELSE CHOOSE k \in hits : \A j \in hits : j <= k

RECURSIVE WithMarkersFrom(_, _, _)
WithMarkersFrom(body, at, k) ==
    IF k > Len(body) THEN <<>>
    ELSE <<body[k]>> \o (IF k \in at THEN <<NoNewlineMarker>> ELSE <<>>)
         \o WithMarkersFrom(body, at, k + 1)

WithMarkers(body, markers) ==
    WithMarkersFrom(body,
        (IF "old" \in markers THEN {LastIndex(body, TRUE)} ELSE {})
        \cup (IF "new" \in markers THEN {LastIndex(body, FALSE)} ELSE {}), 1)

RECURSIVE ScriptPatchLines(_, _, _)
ScriptPatchLines(ops, markers, k) ==
    IF k > Len(ops) THEN <<>>
    ELSE IF ops[k].op = "K" THEN ScriptPatchLines(ops, markers, k + 1)
    ELSE LET e == HunkEnd(ops, k)
             before == Len(NewLines(ops, 1, k - 1))
             newCount == Len(NewLines(ops, k, e))
             header == WriteHeader(k, e - k + 1,
                                   IF newCount = 0 THEN before ELSE before + 1,
                                   newCount)
             body == BodyLines(ops, k, e)
             last == \A j \in (e + 1)..Len(ops) : ops[j].op = "K"
         IN  <<header>> \o (IF last THEN WithMarkers(body, markers) ELSE body)
             \o ScriptPatchLines(ops, markers, e + 1)

PatchOf(sc) ==
    WriteLines(ScriptPatchLines(sc.ops, sc.markers, 1), sc.eol,
               IF sc.eol = "\n" THEN "" ELSE sc.eol)

\* originals of up to MaxOrigLen characters with LF, CRLF and lone CR in them
RECURSIVE Texts(_)
Texts(n) ==
    IF n = 0 THEN {""}
    ELSE Texts(n - 1) \cup {t \o c : t \in Texts(n - 1), c \in {"a", "\n", "\r"}}

FreeOriginals(maxLen) == Texts(maxLen)

\* patches in which no line is a hunk header
NoHunkPatches ==
    {"", " a\n+b", "@@ 1 +1 @@\n-a\n", "@@ -1,2\n+b", NoNewlineMarker}

\* edit scripts of pure insertions: every line of the original stays outside
\* every hunk, and an Add line is inserted after some of them, or before the
\* first; each insertion is a hunk whose header writes the old count 0
InsertScripts(maxLines) ==
    {sc \in [kind : {"insert"},
             ops : UNION {[1..n -> [op : {"K"}, add : {"none", "before", "after"}]] :
                             n \in 1..maxLines},
             origBreak : BOOLEAN,
             markers : {{}},
             eol : {"\n"}] :
        /\ \E k \in 1..Len(sc.ops) : sc.ops[k].add # "none"
        /\ \A k \in 2..Len(sc.ops) : sc.ops[k].add # "before"}

RECURSIVE InsertPatchLines(_, _)
InsertPatchLines(ops, k) ==
    IF k > Len(ops) THEN <<>>
    ELSE IF ops[k].add = "none" THEN InsertPatchLines(ops, k + 1)
    ELSE <<WriteHeader(IF ops[k].add = "before" THEN k - 1 ELSE k, 0,
                       Len(NewLines(ops, 1, k - 1))
                           + (IF ops[k].add = "before" THEN 1 ELSE 2), 1),
           "+" \o Ch(Capitals, k)>>
         \o InsertPatchLines(ops, k + 1)

InsertPatchOf(sc) == WriteLines(InsertPatchLines(sc.ops, 1), "\n", "\n")

InitGmc ==
    /\ \/ \E sc \in ScriptInputs(MaxOrigLines) :
             script = sc /\ GmcStart(OriginalOf(sc), PatchOf(sc))
       \/ \E content \in FreeOriginals(MaxOrigLen), patch \in NoHunkPatches :
             script = NoScript /\ GmcStart(content, patch)
       \/ \E sc \in InsertScripts(MaxOrigLines) :
             script = sc /\ GmcStart(OriginalOf(sc), InsertPatchOf(sc))
    /\ IdleSplit /\ IdleDiff /\ IdleLines

SpecGmc == InitGmc /\ [][NextGmc]_vars

(***************************************************************************)
(* parsePatch on patches that begin with a written hunk header.            *)
(*                                                                         *)
(* A header shape says what the header writes: the old start, the old      *)
(* count or none, and of the new range nothing ("none"), the start alone   *)
(* ("start"), the start and a comma ("comma") or the start and a count     *)
(* ("count"), then the section heading after the closing @@.  The numbers  *)
(* are 0..MaxHeaderNumber, 5 and 12.                                       *)
(***************************************************************************)
HeaderNumbers(maxNumber) == 0..maxNumber \cup {5, 12}

HeaderShapes(maxNumber) ==
    {sh \in [oldStart : HeaderNumbers(maxNumber),
             oldCount : {<<>>} \cup {<<n>> : n \in HeaderNumbers(maxNumber)},
             new : {"none", "start", "comma", "count"},
             newStart : HeaderNumbers(maxNumber),
             newCount : HeaderNumbers(maxNumber),
             heading : {"", " f()"}] :
        /\ sh.new = "none" => sh.newStart = 0
        /\ sh.new # "count" => sh.newCount = 0}

WriteShape(sh) ==
    "@@ -" \o NumStr(sh.oldStart)
    \o (IF sh.oldCount = <<>> THEN "" ELSE "," \o NumStr(sh.oldCount[1]))
    \o (CASE sh.new = "none" -> ""
          [] sh.new = "start" -> " +" \o NumStr(sh.newStart)
          [] sh.new = "comma" -> " +" \o NumStr(sh.newStart) \o ","
          [] OTHER -> " +" \o NumStr(sh.newStart) \o "," \o NumStr(sh.newCount))
    \o " @@" \o sh.heading

\* the lines that follow the written header
HeaderBodies ==
    {<<>>, <<"+b">>, <<" a", "-c", "@@ -a +1 @@">>, <<"@@ -1 +1", "+b", "@@ -9,9 +9,9 @@">>}

HeaderScripts(maxNumber) ==
    [kind : {"header"}, shape : HeaderShapes(maxNumber), body : HeaderBodies]

InitHeader ==
    /\ pc = "parsePatch"
    /\ \E sc \in HeaderScripts(MaxHeaderNumber) :
          /\ script = sc
          /\ diffHunkReader
                = parseDiffHunk(WriteLines(<<WriteShape(sc.shape)>> \o sc.body, "\n", "\n"))
    /\ diffHunks = <<>>
    /\ IdleGmc /\ IdleSplit /\ IdleDiff /\ IdleLines

SpecHeader == InitHeader /\ [][NextParse]_vars

(***************************************************************************)
(* LineReader(text), one call of next() at a time.  The texts are those of *)
(* up to MaxTextLen characters out of a letter, LF and CR.                 *)
(***************************************************************************)
InitLines ==
    /\ pc = "LineReader"
    /\ \E text \in Texts(MaxTextLen) : lineReader = [text |-> text, index |-> 0]
    /\ yielded = <<>>
    /\ script = NoScript
    /\ IdleParse /\ IdleGmc /\ IdleSplit /\ IdleDiff

\* next() runs the loop body up to its yield
LineReaderYield ==
    /\ pc = "LineReader"
    /\ LET r == LineReaderNext(lineReader.text, lineReader.index)
       IN  /\ ~r.done
           /\ yielded' = Append(yielded, r.value)
           /\ lineReader' = [lineReader EXCEPT !.index = r.index]
    /\ UNCHANGED <<pc, parseVars, gmcVars, splitVars, diffVars, script>>

\* next() finds the loop condition false: the generator returns
LineReaderReturn ==
    /\ pc = "LineReader"
    /\ LineReaderNext(lineReader.text, lineReader.index).done
    /\ pc' = "done"
    /\ UNCHANGED <<lineVars, parseVars, gmcVars, splitVars, diffVars, script>>

NextLines == LineReaderYield \/ LineReaderReturn

SpecLines == InitLines /\ [][NextLines]_vars

(***************************************************************************)
(* parseDiff: one SlimFileChange or InMemFileChange per raw file change.   *)
(***************************************************************************)
\* the table with "renamed" mapped as "modified" is mapped
getGitChangeTypeRenamedAsModified(status) ==
    CASE status = "removed" -> "DELETE"
      [] status = "added" -> "ADD"
      [] status \in {"renamed", "modified"} -> "MODIFY"
      [] OTHER -> "UNKNOWN"

getGitChangeType(status) ==
    CASE status = "removed" -> "DELETE"
      [] status = "added" -> "ADD"
      [] status = "renamed" -> "RENAME"
      [] status = "modified" -> "MODIFY"
      [] OTHER -> "UNKNOWN"

\* review.patch as a condition: undefined and "" are both falsy
PatchTruthy(review) == review.patch # <<>> /\ review.patch[1] # ""

\* the test with the empty-file-add exception left out
SlimTestNoAddException(review, gitChangeType) ==
    /\ ~PatchTruthy(review)
    /\ gitChangeType # "RENAME"
    /\ gitChangeType # "MODIFY"

\* the test with the exception made for the adds that are not empty
SlimTestExceptFilledAdds(review, gitChangeType) ==
    /\ ~PatchTruthy(review)
    /\ gitChangeType # "RENAME"
    /\ gitChangeType # "MODIFY"
    /\ ~(gitChangeType = "ADD" /\ review.additions # 0)

\* the if condition under which a SlimFileChange is pushed
SlimTest(review, gitChangeType) ==
    /\ ~PatchTruthy(review)
    /\ gitChangeType # "RENAME"
    /\ gitChangeType # "MODIFY"
    /\ ~(gitChangeType = "ADD" /\ review.additions = 0)

parentCommit == "parent"

SlimFileChange(parent, blobUrl, status, fileName, previousFileName) ==
    [class |-> "SlimFileChange", parentCommit |-> parent, blobUrl |-> blobUrl,
     status |-> status, fileName |-> fileName,
     previousFileName |-> previousFileName]

InMemFileChange(parent, status, fileName, previousFileName, patch, hunks, blobUrl) ==
    [class |-> "InMemFileChange", parentCommit |-> parent, status |-> status,
     fileName |-> fileName, previousFileName |-> previousFileName,
     patch |-> patch, diffHunks |-> hunks, blobUrl |-> blobUrl]

\* the raw file changes given: file k is named by k; patch is undefined, "",
\* a text with no hunk header in it, or a text with one hunk
ReviewPatches == {<<>>, <<"">>, <<" a">>, <<"@@ -1 +1 @@\n-a\n+b">>}

ReviewStatuses == {"removed", "added", "renamed", "modified", "copied"}

RawFileChange(k, shape) ==
    [filename |-> "file" \o NumStr(k), previous_filename |-> <<>>,
     blob_url |-> "blob" \o NumStr(k), status |-> shape.status,
     patch |-> shape.patch, additions |-> shape.additions]

ReviewInputs(maxReviews) ==
    UNION {{[k \in 1..n |-> RawFileChange(k, shapes[k])] :
                shapes \in [1..n -> [status : ReviewStatuses,
                                     patch : ReviewPatches,
                                     additions : {0, 3}]]} :
           n \in 0..maxReviews}

InitDiff ==
    /\ pc = "parseDiff"
    /\ reviews \in ReviewInputs(MaxReviews)
    /\ reviewIdx = 0
    /\ fileChanges = <<>>
    /\ script = NoScript
    /\ IdleParse /\ IdleGmc /\ IdleSplit /\ IdleLines

\* a turn of the loop that pushes a SlimFileChange and continues
ParseDiffSlim ==
    /\ pc = "parseDiff"
    /\ reviewIdx < Len(reviews)
    /\ LET review == reviews[reviewIdx + 1]
           gitChangeType == getGitChangeType(review.status)
       IN  /\ SlimTest(review, gitChangeType)
           /\ fileChanges' = Append(fileChanges,
                  SlimFileChange(parentCommit, review.blob_url, gitChangeType,
                                 review.filename, review.previous_filename))
    /\ reviewIdx' = reviewIdx + 1
    /\ UNCHANGED <<pc, reviews, parseVars, gmcVars, splitVars, script, lineVars>>

\* a turn of the loop that pushes an InMemFileChange
ParseDiffInMem ==
    /\ pc = "parseDiff"
    /\ reviewIdx < Len(reviews)
    /\ LET review == reviews[reviewIdx + 1]
           gitChangeType == getGitChangeType(review.status)
           hunks == IF PatchTruthy(review)
                    THEN <<parsePatch(review.patch[1])>> ELSE <<>>
       IN  /\ ~SlimTest(review, gitChangeType)
           /\ fileChanges' = Append(fileChanges,
                  InMemFileChange(parentCommit, gitChangeType, review.filename,
                                  review.previous_filename,
                                  IF review.patch # <<>> THEN review.patch[1] ELSE "",
                                  hunks, review.blob_url))
    /\ reviewIdx' = reviewIdx + 1
    /\ UNCHANGED <<pc, reviews, parseVars, gmcVars, splitVars, script, lineVars>>

ParseDiffReturn ==
    /\ pc = "parseDiff"
    /\ reviewIdx >= Len(reviews)
    /\ pc' = "done"
    /\ UNCHANGED <<diffVars, parseVars, gmcVars, splitVars, script, lineVars>>

NextDiff == ParseDiffSlim \/ ParseDiffInMem \/ ParseDiffReturn

SpecDiff == InitDiff /\ [][NextDiff]_vars

(***************************************************************************)
(* Claims about parseDiffHunk, under SpecParse.                            *)
(***************************************************************************)
\* the index in lines of the first header line, 0 if there is none
RECURSIVE FirstHeaderFrom(_, _)
FirstHeaderFrom(lines, k) ==
    IF k > Len(lines) THEN 0
    ELSE IF HeaderExec(lines[k]).matched THEN k
    ELSE FirstHeaderFrom(lines, k + 1)

\* the lines of all emitted hunks, in emission order
RECURSIVE LinesOfHunks(_)
LinesOfHunks(hs) ==
    IF Len(hs) = 0 THEN <<>> ELSE hs[1].diffLines \o LinesOfHunks(Tail(hs))

EmittedLines == LinesOfHunks(diffHunks)

\* C8 as stated: for every stored line of every emitted hunk, kind = Add exactly
\* when oldLineNumber = -1 and kind = Delete exactly when newLineNumber = -1.
C8_AsStated ==
    LET emitted == EmittedLines
    IN  \A k \in 1..Len(emitted) :
        LET l == emitted[k]
        IN  /\ (l.type = "Add") <=> (l.oldLineNumber = -1)
            /\ (l.type = "Delete") <=> (l.newLineNumber = -1)

\* C8 amended: for every stored line other than a hunk's header Control line,
\* kind = Add exactly when oldLineNumber = -1 and kind = Delete exactly when
\* newLineNumber = -1; the header Control line carries -1 in both.
C8_LineNumberInvariant ==
    LET emitted == EmittedLines
    IN  \A k \in 1..Len(emitted) :
        LET l == emitted[k]
        IN  IF l.type = "Control"
            THEN l.oldLineNumber = -1 /\ l.newLineNumber = -1
            ELSE /\ (l.type = "Add") <=> (l.oldLineNumber = -1)
                 /\ (l.type = "Delete") <=> (l.newLineNumber = -1)

\* an emitted hunk that stores a Context, an Add and a Delete line
C8_Witness ==
    \E h \in 1..Len(diffHunks) :
        \A t \in {"Context", "Add", "Delete"} :
            \E k \in 1..Len(diffHunks[h].diffLines) : diffHunks[h].diffLines[k].type = t

\* C9: the counter is -1 until the first header is scanned and from then on the
\* number of lines scanned since that header; every stored line carries the
\* number of lines scanned between the first header and itself, so over all
\* emitted hunks positionInHunk starts at 0 and is strictly increasing, and each
\* hunk's positionInHunk is that of its header line.
C9_PositionCounts ==
    LET scannedLines == LinesFrom(diffHunkReader.text, 0)
        scannedCount == Len(scannedLines)
                        - Len(LinesFrom(diffHunkReader.text, diffHunkReader.index))
        firstHeader == FirstHeaderFrom(scannedLines, 1)
        emitted == EmittedLines
    IN  /\ diffHunkReader.positionInHunk =
              IF firstHeader = 0 \/ scannedCount < firstHeader THEN -1
              ELSE scannedCount - firstHeader + 1
        /\ \A k \in 1..Len(emitted) :
              LET l == emitted[k]
              IN  /\ l.positionInHunk >= 0
                  /\ firstHeader + l.positionInHunk <= scannedCount
                  /\ scannedLines[firstHeader + l.positionInHunk] = l.raw
                  /\ k = 1 => l.positionInHunk = 0
                  /\ k > 1 => emitted[k - 1].positionInHunk < l.positionInHunk
        /\ \A h \in 1..Len(diffHunks) :
              diffHunks[h].positionInHunk = diffHunks[h].diffLines[1].positionInHunk

\* two hunks emitted after a line that precedes the first header, the second
\* hunk's header further than one line from the first
C9_Witness ==
    /\ FirstHeaderFrom(LinesFrom(diffHunkReader.text, 0), 1) > 1
    /\ Len(diffHunks) = 2
    /\ diffHunks[2].positionInHunk > 1
    /\ Len(diffHunks[1].diffLines) > 1

\* the lines of PatchLineChoices that DIFF_HUNK_HEADER matches
HeaderLineChoices == {"@@ -1,2 +1,2 @@", "@@ -5 +5 @@ f()", "@@ -3 @@"}

\* the indexes in lines, from k on, of the header lines, in order
RECURSIVE HeaderIndexes(_, _)
HeaderIndexes(lines, k) ==
    IF k > Len(lines) THEN <<>>
    ELSE (IF lines[k] \in HeaderLineChoices THEN <<k>> ELSE <<>>)
         \o HeaderIndexes(lines, k + 1)

\* a line whose first character is a space, + or -
IsContentLine(l) == Len(l) > 0 /\ Ch(l, 1) \in {" ", "+", "-"}

\* the raw texts a hunk stores for lines[from..to], lines[from] its header
SegmentRaws(lines, from, to) ==
    <<lines[from]>> \o SelectSeq(SubSeq(lines, from + 1, to), IsContentLine)

RawsOf(h) == [k \in 1..Len(h.diffLines) |-> h.diffLines[k].raw]

\* parsePatch is running or has returned, and has returned exactly when the
\* generator has; the hunks emitted are those of the header lines scanned
\* but the last while the generator runs, and of all header lines after it;
\* the i-th emitted hunk is that of the i-th header line and stores that line
\* and the content lines up to the next header line; before a header line is
\* scanned no hunk is open
C15_Emission ==
    LET lines == LinesFrom(diffHunkReader.text, 0)
        scanned == Len(lines)
                   - Len(LinesFrom(diffHunkReader.text, diffHunkReader.index))
        headers == HeaderIndexes(lines, 1)
        seen == Cardinality({i \in 1..Len(headers) : headers[i] <= scanned})
        segmentEnd == [i \in 1..Len(headers) |->
                          IF i < Len(headers) THEN headers[i + 1] - 1 ELSE Len(lines)]
    IN  /\ pc \in {"parsePatch", "done"}
        /\ pc = "done" <=> diffHunkReader.pc = "done"
        /\ diffHunkReader.pc # "run" => scanned = Len(lines)
        /\ Len(diffHunks) = IF diffHunkReader.pc # "run" THEN Len(headers)
                            ELSE IF seen = 0 THEN 0 ELSE seen - 1
        /\ \A i \in 1..Len(diffHunks) :
              RawsOf(diffHunks[i]) = SegmentRaws(lines, headers[i], segmentEnd[i])
        /\ seen = 0 => diffHunkReader.diffHunk = <<>>
        /\ (seen > 0 /\ diffHunkReader.pc = "run")
              => /\ diffHunkReader.diffHunk # <<>>
                 /\ RawsOf(diffHunkReader.diffHunk[1])
                       = SegmentRaws(lines, headers[seen], scanned)

\* every step scans a further line of the input or takes the generator
\* towards its return
C15_Progress ==
    \/ /\ diffHunkReader.pc = "run" /\ diffHunkReader'.pc = "run"
       /\ diffHunkReader.index # -1
       /\ diffHunkReader'.index > diffHunkReader.index \/ diffHunkReader'.index = -1
    \/ diffHunkReader.pc = "run" /\ diffHunkReader'.pc \in {"final", "done"}
    \/ diffHunkReader.pc = "final" /\ diffHunkReader'.pc = "done"

\* C15: on any input parseDiffHunk goes on to the end of the input and to its
\* return with no error state, and emits exactly one hunk per header line, in
\* the order of the header lines: the open hunk when the next header line is
\* scanned, the last one at the end of the input; lines before the first
\* header line open no hunk and are stored nowhere.
C15_OneHunkPerHeader == []C15_Emission /\ [][C15_Progress]_vars

\* two hunks from a patch whose first line is a malformed header
C15_Witness ==
    /\ pc = "done"
    /\ Len(diffHunkReader.text) > 0
    /\ LinesFrom(diffHunkReader.text, 0)[1] = "@@ 1 +1 @@"
    /\ Len(diffHunks) = 2
    /\ Len(diffHunks[1].diffLines) = 2

\* what a stored line advances a cursor by: 1 + the carriage returns in it
CursorStep(l) == 1 + Cardinality({i \in 1..Len(l.raw) : Ch(l.raw, i) = "\r"})

\* the sum of the steps of the lines 2..k-1 of h whose kind is in kinds
RECURSIVE AdvanceBefore(_, _, _)
AdvanceBefore(h, k, kinds) ==
    IF k <= 2 THEN 0
    ELSE AdvanceBefore(h, k - 1, kinds)
         + (IF h.diffLines[k - 1].type \in kinds
            THEN CursorStep(h.diffLines[k - 1]) ELSE 0)

\* start moved on by n, a start that is no number staying so
CursorFrom(start, n) == IF start = NaN THEN NaN ELSE start + n

\* C18: in each hunk the cursors start at the header's old and new start; a
\* stored content line carries the old cursor unless it is an Add line and
\* the new cursor unless it is a Delete line; a Context line then advances
\* both cursors, a Delete line the old one, an Add line the new one, by 1 +
\* the number of carriage returns in the raw line.
C18_Cursors ==
    \A i \in 1..Len(diffHunks) :
        LET h == diffHunks[i]
        IN  \A k \in 2..Len(h.diffLines) :
            LET l == h.diffLines[k]
            IN  /\ l.type # "Add" =>
                      l.oldLineNumber = CursorFrom(h.oldLineNumber,
                          AdvanceBefore(h, k, {"Context", "Delete"}))
                /\ l.type # "Delete" =>
                      l.newLineNumber = CursorFrom(h.newLineNumber,
                          AdvanceBefore(h, k, {"Context", "Add"}))

\* @@ -1,2 +1,2 @@ / +b\rc / a / -c: the Context line is new line 3
C18_Witness ==
    /\ Len(diffHunks) = 1
    /\ RawsOf(diffHunks[1]) = <<"@@ -1,2 +1,2 @@", "+b\rc", " a", "-c">>
    /\ diffHunks[1].diffLines[3].oldLineNumber = 1
    /\ diffHunks[1].diffLines[3].newLineNumber = 3
    /\ diffHunks[1].diffLines[4].oldLineNumber = 2

\* a line that is no header line and begins with none of space, + and -
IsMarkerLine(l) == l \notin HeaderLineChoices /\ ~IsContentLine(l)

\* C19: a stored line has endwithLineBreak = FALSE exactly when it is the
\* last stored line of its hunk at the moment a marker line is scanned, which
\* is when the input line after it is a marker line; every other stored line
\* keeps TRUE, and no marker line is stored.
C19_FlagBeforeMarker ==
    LET lines == LinesFrom(diffHunkReader.text, 0)
        headers == HeaderIndexes(lines, 1)
    IN  \A i \in 1..Len(diffHunks) :
            \A k \in 1..Len(diffHunks[i].diffLines) :
                LET l == diffHunks[i].diffLines[k]
                    at == headers[1] + l.positionInHunk
                IN  /\ lines[at] = l.raw
                    /\ ~IsMarkerLine(l.raw)
                    /\ l.endwithLineBreak
                          <=> ~(at < Len(lines) /\ IsMarkerLine(lines[at + 1]))

\* @@ -1,2 +1,2 @@ / a / an empty line / -c
C19_Witness ==
    /\ pc = "done"
    /\ diffHunkReader.text = "@@ -1,2 +1,2 @@\n a\n\n-c"
    /\ Len(diffHunks) = 1
    /\ RawsOf(diffHunks[1]) = <<"@@ -1,2 +1,2 @@", " a", "-c">>
    /\ [k \in 1..3 |-> diffHunks[1].diffLines[k].endwithLineBreak]
          = <<TRUE, FALSE, TRUE>>

\* C20: in every emitted hunk the first stored line is a Control line whose
\* raw text is the hunk's header line and whose oldLineNumber and
\* newLineNumber are -1, and no other stored line is a Control line.
C20_HeaderControlLine ==
    LET lines == LinesFrom(diffHunkReader.text, 0)
        headers == HeaderIndexes(lines, 1)
    IN  \A i \in 1..Len(diffHunks) :
            /\ Len(diffHunks[i].diffLines) >= 1
            /\ diffHunks[i].diffLines[1].type = "Control"
            /\ diffHunks[i].diffLines[1].raw = lines[headers[i]]
            /\ diffHunks[i].diffLines[1].oldLineNumber = -1
            /\ diffHunks[i].diffLines[1].newLineNumber = -1
            /\ \A k \in 2..Len(diffHunks[i].diffLines) :
                  diffHunks[i].diffLines[k].type \in {"Context", "Add", "Delete"}

\* two hunks, the first with a no-newline marker scanned in it
C20_Witness ==
    /\ pc = "done"
    /\ LinesFrom(diffHunkReader.text, 0)
          = <<"@@ -5 +5 @@ f()", "-c", "\\ No newline", "@@ -1,2 +1,2 @@">>
    /\ Len(diffHunks) = 2
    /\ RawsOf(diffHunks[1]) = <<"@@ -5 +5 @@ f()", "-c">>
    /\ RawsOf(diffHunks[2]) = <<"@@ -1,2 +1,2 @@">>

\* the hunk object the generator holds is an emitted one only after its last
\* yield, and is then the last hunk emitted; while the generator runs, the
\* open hunk is an object of its own: no emitted hunk begins at its header
C22_OpenHunkApart ==
    /\ diffHunkReader.pc = "final"
          => diffHunkReader.diffHunk = <<diffHunks[Len(diffHunks)]>>
    /\ (diffHunkReader.pc = "run" /\ diffHunkReader.diffHunk # <<>>)
          => \A i \in 1..Len(diffHunks) :
                diffHunks[i].positionInHunk
                    # diffHunkReader.diffHunk[1].positionInHunk

\* a step leaves every hunk emitted before it as it was
C22_EmittedKept ==
    /\ Len(diffHunks') >= Len(diffHunks)
    /\ SubSeq(diffHunks', 1, Len(diffHunks)) = diffHunks

\* C22: once a hunk is emitted no later input line changes it: its header
\* fields, its lines and their endwithLineBreak flags stay as emitted; a
\* marker line scanned after a later header changes only the hunk open then.
C22_EmittedHunksFrozen == []C22_OpenHunkApart /\ [][C22_EmittedKept]_vars

\* @@ -5 +5 @@ f() / -c / @@ -1,2 +1,2 @@ / a no-newline marker: the marker
\* clears the flag of the second hunk's header line only
C22_Witness ==
    /\ pc = "done"
    /\ LinesFrom(diffHunkReader.text, 0)
          = <<"@@ -5 +5 @@ f()", "-c", "@@ -1,2 +1,2 @@", "\\ No newline">>
    /\ Len(diffHunks) = 2
    /\ \A k \in 1..2 : diffHunks[1].diffLines[k].endwithLineBreak
    /\ ~diffHunks[2].diffLines[1].endwithLineBreak

(***************************************************************************)
(* Claims about splitIntoSmallerHunks, under SpecSplit.  The input lines   *)
(* differ in positionInHunk, so a line is told from every other one.       *)
(***************************************************************************)
IsChange(line) == line.type \in {"Add", "Delete"}

\* how many times this line stands in the output hunks hs
Occurrences(hs, line) ==
    Cardinality({p \in {<<h, k>> : h \in 1..Len(hs), k \in 1..MaxHunkLines + 1} :
                    /\ p[2] <= Len(hs[p[1]].diffLines)
                    /\ hs[p[1]].diffLines[p[2]] = line})

\* the lines that stand both in hunk a and in hunk b
SharedLines(a, b) ==
    {a.diffLines[k] : k \in 1..Len(a.diffLines)}
    \cap {b.diffLines[k] : k \in 1..Len(b.diffLines)}

\* the types of the input's lines after its header line
ContentTypes == [k \in 1..(Len(hunk.diffLines) - 1) |-> hunk.diffLines[k + 1].type]

\* line k of the input lies between two change regions that both reach the
\* output: a Context line, then a change line stand before it, and a change
\* line stands after it
BetweenKeptRegions(k) ==
    LET ls == hunk.diffLines
    IN  /\ \E i \in 1..(k - 1) : \E j \in (i + 1)..(k - 1) :
              ls[i].type = "Context" /\ IsChange(ls[j])
        /\ \E m \in (k + 1)..Len(ls) : IsChange(ls[m])

\* C4 as stated: every Add line and every Delete line of the input stands in
\* exactly one output hunk.
C4_AsStated ==
    pc = "done" =>
        \A k \in 1..Len(hunk.diffLines) :
            IsChange(hunk.diffLines[k]) => Occurrences(splitHunks, hunk.diffLines[k]) = 1

\* C5: the input [Context, Delete, Context, Add, Context] gives exactly two
\* hunks that share the middle Context line as last and first line; and a
\* single Context line between two change lines, the first of them preceded by
\* a Context line, is the last line of an output hunk and the first of the next.
C5_SingleContextShared ==
    /\ pc # "TypeError"
    /\ pc = "done" =>
        LET ls == hunk.diffLines
        IN  /\ ContentTypes = <<"Context", "Delete", "Context", "Add", "Context">> =>
                  /\ Len(splitHunks) = 2
                  /\ splitHunks[1].diffLines = <<ls[2], ls[3], ls[4]>>
                  /\ splitHunks[2].diffLines = <<ls[4], ls[5], ls[6]>>
            /\ \A k \in 2..(Len(ls) - 1) :
                  (/\ ls[k].type = "Context"
                   /\ IsChange(ls[k - 1])
                   /\ IsChange(ls[k + 1])
                   /\ \E i \in 1..(k - 2) : ls[i].type = "Context")
                  => \E h \in 1..(Len(splitHunks) - 1) :
                        /\ splitHunks[h].diffLines[Len(splitHunks[h].diffLines)] = ls[k]
                        /\ splitHunks[h + 1].diffLines[1] = ls[k]

C5_Witness ==
    /\ pc = "done"
    /\ ContentTypes = <<"Context", "Delete", "Context", "Add", "Context">>
    /\ Len(splitHunks) = 2

\* C6 as stated: two adjacent output hunks share one Context line, whatever the
\* length of the run of Context lines between the two change regions.
C6_AsStated ==
    pc = "done" =>
        \A h \in 1..(Len(splitHunks) - 1) :
            Cardinality(SharedLines(splitHunks[h], splitHunks[h + 1])) = 1

\* C6 amended: every Context line of the run between two change regions that
\* are split stands in both adjacent output hunks, the first ending with the
\* whole run and the next beginning with it (a single line is shared only when
\* the run has length 1); every other Context line stands in exactly one output
\* hunk.
C6_WholeRunShared ==
    /\ pc # "TypeError"
    /\ pc = "done" =>
        /\ \A k \in 1..Len(hunk.diffLines) :
              hunk.diffLines[k].type = "Context" =>
                  Occurrences(splitHunks, hunk.diffLines[k]) =
                      IF BetweenKeptRegions(k) THEN 2 ELSE 1
        /\ \A h \in 1..(Len(splitHunks) - 1) :
              LET a == splitHunks[h].diffLines
                  b == splitHunks[h + 1].diffLines
                  n == Cardinality(SharedLines(splitHunks[h], splitHunks[h + 1]))
              IN  /\ n >= 1
                  /\ SubSeq(a, Len(a) - n + 1, Len(a)) = SubSeq(b, 1, n)
                  /\ \A k \in 1..n : b[k].type = "Context"
                  /\ IsChange(a[Len(a) - n])
                  /\ IsChange(b[n + 1])

\* a split at a run of two Context lines
C6_Witness ==
    /\ pc = "done"
    /\ \E h \in 1..(Len(splitHunks) - 1) :
          Cardinality(SharedLines(splitHunks[h], splitHunks[h + 1])) = 2

\* C7: every Context line of the input stands in one or in two output hunks,
\* no line stands twice in one hunk, and the output keeps the input's order:
\* within a hunk and from one hunk's first (last) line to the next hunk's.
C7_ContextOnceOrTwice ==
    /\ pc # "TypeError"
    /\ pc = "done" =>
        /\ \A k \in 1..Len(hunk.diffLines) :
              hunk.diffLines[k].type = "Context" =>
                  Occurrences(splitHunks, hunk.diffLines[k]) \in {1, 2}
        /\ \A h \in 1..Len(splitHunks) :
              LET a == splitHunks[h].diffLines
              IN  /\ \A k \in 1..Len(a) : \E i \in 1..Len(hunk.diffLines) :
                                             hunk.diffLines[i] = a[k]
                  /\ \A k \in 1..(Len(a) - 1) :
                        a[k].positionInHunk < a[k + 1].positionInHunk
        /\ \A h \in 1..(Len(splitHunks) - 1) :
              LET a == splitHunks[h].diffLines
                  b == splitHunks[h + 1].diffLines
              IN  /\ a[1].positionInHunk < b[1].positionInHunk
                  /\ a[Len(a)].positionInHunk < b[Len(b)].positionInHunk

\* an input with a Context line in one output hunk and one in two
C7_Witness ==
    /\ pc = "done"
    /\ \E k \in 1..Len(hunk.diffLines) :
          hunk.diffLines[k].type = "Context"
          /\ Occurrences(splitHunks, hunk.diffLines[k]) = 1
    /\ \E k \in 1..Len(hunk.diffLines) :
          hunk.diffLines[k].type = "Context"
          /\ Occurrences(splitHunks, hunk.diffLines[k]) = 2

\* the Context lines at the end of lines, back to the last other line
RECURSIVE TrailingContext(_)
TrailingContext(lines) ==
    IF Len(lines) = 0 \/ lines[Len(lines)].type # "Context" THEN <<>>
    ELSE Append(TrailingContext(SubSeq(lines, 1, Len(lines) - 1)), lines[Len(lines)])

\* a hunk with a line that is no Context line and a Context line as its last
Sandwiched(h) ==
    /\ Len(h.diffLines) >= 1
    /\ h.diffLines[Len(h.diffLines)].type = "Context"
    /\ \E k \in 1..Len(h.diffLines) : h.diffLines[k].type # "Context"

\* a hunk that is not empty and begins with a Context line it is anchored at
AnchoredAtContext(h) ==
    /\ Len(h.diffLines) >= 1
    /\ h.diffLines[1].type = "Context"
    /\ h.oldLineNumber = h.diffLines[1].oldLineNumber
    /\ h.newLineNumber = h.diffLines[1].newLineNumber

\* C23: after every line processed, nextHunk exists exactly when currentHunk
\* has sandwiched changes, and its lines are then the trailing run of Context
\* lines of currentHunk; so promoting nextHunk never leaves currentHunk
\* undefined or empty, and every output hunk, like every open one, is not
\* empty and begins with a Context line whose line numbers are its anchors.
C23_NextIsTrailingContext ==
    /\ pc # "TypeError"
    /\ nextHunk # <<>> <=> (currentHunk # <<>> /\ Sandwiched(currentHunk[1]))
    /\ nextHunk # <<>>
          => /\ nextHunk[1].diffLines = TrailingContext(currentHunk[1].diffLines)
             /\ AnchoredAtContext(nextHunk[1])
    /\ currentHunk # <<>> => AnchoredAtContext(currentHunk[1])
    /\ \A i \in 1..Len(splitHunks) : AnchoredAtContext(splitHunks[i])

\* a hunk pushed, and a next hunk holding a run of two Context lines
C23_Witness ==
    /\ pc = "splitIntoSmallerHunks"
    /\ Len(splitHunks) >= 1
    /\ nextHunk # <<>>
    /\ Len(nextHunk[1].diffLines) = 2
    /\ Len(currentHunk[1].diffLines) = 4

(***************************************************************************)
(* Claims about getModifiedContentFromDiffHunk, under SpecGmc.             *)
(***************************************************************************)
\* the text in which every one of lines is followed by a line feed
RECURSIVE Terminated(_)
Terminated(lines) ==
    IF Len(lines) = 0 THEN "" ELSE lines[1] \o "\n" \o Terminated(Tail(lines))

ReturnedFromScript == pc = "done" /\ script.kind = "hunks"

\* C1: for an original whose lines all end with a line feed and a patch of
\* well-formed hunks with no no-newline marker, the function returns the
\* original with each hunk's old range replaced, in order, by the texts of the
\* hunk's Context and Add lines, every line followed by a line feed.
C1_HunksReplaceOldRanges ==
    (ReturnedFromScript /\ script.origBreak /\ script.markers = {})
        => modifiedContent
              = <<Terminated(NewLines(script.ops, 1, Len(script.ops)))>>

\* original "a\nb\nc\nd\n", hunk @@ -1,4 +1,4 @@ / a / -b / +B / c / d
C1_Witness ==
    /\ pc = "done"
    /\ originalContent = "a\nb\nc\nd\n"
    /\ Len(diffHunks) = 1
    /\ [k \in 1..Len(diffHunks[1].diffLines) |-> diffHunks[1].diffLines[k].raw]
          = <<"@@ -1,4 +1,4 @@", " a", "-b", "+B", " c", " d">>
    /\ modifiedContent = <<"a\nB\nc\nd\n">>

\* the last hunk of the patch and whether its last line that is no Delete
\* line ends with a line break
LastHunk == diffHunks[Len(diffHunks)]

LastKeptLineBreak ==
    LastNonDeleteEndsWithNewline(LastHunk.diffLines, Len(LastHunk.diffLines), TRUE)

\* the number of lines of the original: a final line break begins no line
OriginalLineCount ==
    IF left[Len(left)] = "" THEN Len(left) - 1 ELSE Len(left)

\* the lines the patch keeps or adds
KeptLines == NewLines(script.ops, 1, Len(script.ops))

\* C2: when the last hunk's old range reaches the final line of the original
\* and at least one line is kept, the returned content is the kept lines
\* joined, followed by exactly one line feed when the last line of the last
\* hunk that is no Delete line has endwithLineBreak true and by nothing when
\* it is false, whether or not the original ended with a line break.
C2_TrailingLineBreak ==
    (/\ ReturnedFromScript
     /\ Len(diffHunks) >= 1
     /\ LastHunk.oldLineNumber + LastHunk.oldLength - 1 = OriginalLineCount
     /\ Len(KeptLines) >= 1)
        => modifiedContent
              = <<Join(KeptLines) \o (IF LastKeptLineBreak THEN "\n" ELSE "")>>

\* original "a\nb\nc\n", patch @@ -2,2 +2,1 @@ / b / -c
C2_Witness ==
    /\ pc = "done"
    /\ originalContent = "a\nb\nc\n"
    /\ Len(diffHunks) = 1
    /\ [k \in 1..Len(LastHunk.diffLines) |-> LastHunk.diffLines[k].raw]
          = <<"@@ -2,2 +2,1 @@", " b", "-c">>
    /\ LastKeptLineBreak
    /\ modifiedContent = <<"a\nb\n">>

\* C3: with a patch in which no line is a hunk header, the function returns
\* the original content unchanged, character for character.
C3_AsStated ==
    (pc = "done" /\ Len(diffHunks) = 0) => modifiedContent = <<originalContent>>

(***************************************************************************)
(* Claims about parseDiff, under SpecDiff.                                 *)
(***************************************************************************)
\* the kind a record's status is mapped to
MappedKind(review) == getGitChangeType(review.status)

\* C10: parseDiff produces, for each raw change record, a SlimFileChange
\* exactly when the patch is absent, the mapped kind is neither RENAME nor
\* MODIFY, and it is not an ADD with additions = 0, and an InMemFileChange
\* otherwise, whose parsed hunks are present exactly when the patch has
\* text; the output has one entry per input record, in input order.
C10_SlimOrInMem ==
    /\ Len(fileChanges) = reviewIdx
    /\ pc = "done" => Len(fileChanges) = Len(reviews)
    /\ \A i \in 1..Len(fileChanges) :
          /\ fileChanges[i].fileName = reviews[i].filename
          /\ fileChanges[i].blobUrl = reviews[i].blob_url
          /\ fileChanges[i].status = MappedKind(reviews[i])
          /\ fileChanges[i].class \in {"SlimFileChange", "InMemFileChange"}
          /\ fileChanges[i].class = "SlimFileChange"
                <=> (/\ ~PatchTruthy(reviews[i])
                     /\ MappedKind(reviews[i]) \notin {"RENAME", "MODIFY"}
                     /\ ~(MappedKind(reviews[i]) = "ADD"
                          /\ reviews[i].additions = 0))
          /\ fileChanges[i].class = "InMemFileChange"
                => (fileChanges[i].diffHunks # <<>> <=> PatchTruthy(reviews[i]))

C10_Witness ==
    /\ pc = "done"
    /\ Len(reviews) = 2
    /\ reviews[1].status = "removed" /\ reviews[1].patch = <<>>
    /\ reviews[2].status = "added" /\ reviews[2].additions = 0
    /\ reviews[2].patch = <<"">>
    /\ fileChanges[1].class = "SlimFileChange"
    /\ fileChanges[2].class = "InMemFileChange"
    /\ fileChanges[2].diffHunks = <<>>

\* the records of status "added" that carry no patch text
AddedWithoutPatch(i) == reviews[i].status = "added" /\ ~PatchTruthy(reviews[i])

\* C11 as stated: an added record with no patch gives a SlimFileChange when
\* additions = 0 and an InMemFileChange with no hunks when additions > 0.
C11_AsStated ==
    \A i \in 1..Len(fileChanges) :
        AddedWithoutPatch(i) =>
            IF reviews[i].additions = 0
            THEN fileChanges[i].class = "SlimFileChange"
            ELSE /\ fileChanges[i].class = "InMemFileChange"
                 /\ fileChanges[i].diffHunks = <<>>

\* C11: an added record with no patch gives an InMemFileChange with patch ""
\* and no parsed hunks when additions = 0, and a SlimFileChange when
\* additions is positive.
C11_EmptyAddIsInMem ==
    \A i \in 1..Len(fileChanges) :
        AddedWithoutPatch(i) =>
            IF reviews[i].additions = 0
            THEN /\ fileChanges[i].class = "InMemFileChange"
                 /\ fileChanges[i].patch = ""
                 /\ fileChanges[i].diffHunks = <<>>
            ELSE fileChanges[i].class = "SlimFileChange"

C11_Witness ==
    /\ pc = "done"
    /\ Len(reviews) = 2
    /\ AddedWithoutPatch(1) /\ reviews[1].additions = 0
    /\ AddedWithoutPatch(2) /\ reviews[2].additions = 3
    /\ fileChanges[1].class = "InMemFileChange"
    /\ fileChanges[2].class = "SlimFileChange"

(***************************************************************************)
(* Claims about the decoding of hunk headers, under SpecHeader.            *)
(***************************************************************************)
\* parsePatch has returned; its first hunk is the one the written header opened
ReturnedFromHeader == pc = "done" /\ script.kind = "header" /\ Len(diffHunks) >= 1

\* C12 as stated: a count n written in the header for the old or the new
\* range is the hunk's oldLength or newLength for every n >= 0, and 1 is used
\* only when the count is not written.
C12_AsStated ==
    ReturnedFromHeader =>
        /\ diffHunks[1].oldLength
              = (IF script.shape.oldCount = <<>> THEN 1 ELSE script.shape.oldCount[1])
        /\ diffHunks[1].newLength
              = (IF script.shape.new = "count" THEN script.shape.newCount ELSE 1)

\* C13: a header with no count in its old range gives oldLength = 1 and one
\* with no count in its new range gives newLength = 1, each whatever the
\* other range writes; the starts written are the hunk's line numbers.
C13_DefaultCounts ==
    ReturnedFromHeader =>
        /\ diffHunks[1].oldLineNumber = script.shape.oldStart
        /\ script.shape.new # "none"
              => diffHunks[1].newLineNumber = script.shape.newStart
        /\ script.shape.oldCount = <<>> => diffHunks[1].oldLength = 1
        /\ script.shape.new # "count" => diffHunks[1].newLength = 1

\* the header @@ -5 +5 @@
C13_Witness ==
    /\ ReturnedFromHeader
    /\ diffHunks[1].diffLines[1].raw = "@@ -5 +5 @@"
    /\ diffHunks[1].oldLineNumber = 5 /\ diffHunks[1].oldLength = 1
    /\ diffHunks[1].newLineNumber = 5 /\ diffHunks[1].newLength = 1

\* C14 as stated: a line opens a hunk only if it writes both the old and the
\* new range, so a written header with no new range opens no hunk and every
\* emitted hunk has integer oldLineNumber and newLineNumber.
C14_AsStated ==
    /\ \A i \in 1..Len(diffHunks) :
          diffHunks[i].oldLineNumber # NaN /\ diffHunks[i].newLineNumber # NaN
    /\ (script.kind = "header" /\ script.shape.new = "none")
          => \A i \in 1..Len(diffHunks) :
                diffHunks[i].diffLines[1].raw # WriteShape(script.shape)

(***************************************************************************)
(* Claims about LineReader, under SpecLines.                               *)
(***************************************************************************)
\* a segment without one carriage return at its end
StripOneCR(segment) ==
    IF Len(segment) > 0 /\ Ch(segment, Len(segment)) = "\r"
    THEN SubSeq(segment, 1, Len(segment) - 1) ELSE segment

\* the segments of text from character k on, segment being the characters
\* read since the last line feed: each line feed ends a segment, and what
\* follows the last line feed is a segment when it is not empty
RECURSIVE SegmentsFrom(_, _, _)
SegmentsFrom(text, k, segment) ==
    IF k > Len(text) THEN (IF segment = "" THEN <<>> ELSE <<segment>>)
    ELSE IF Ch(text, k) = "\n"
         THEN <<StripOneCR(segment)>> \o SegmentsFrom(text, k + 1, "")
         ELSE SegmentsFrom(text, k + 1, segment \o Ch(text, k))

\* the lines yielded are the first segments of the text, and all of them
\* once the generator has returned
C16_Segments ==
    LET segments == SegmentsFrom(lineReader.text, 1, "")
    IN  /\ Len(yielded) <= Len(segments)
        /\ yielded = SubSeq(segments, 1, Len(yielded))
        /\ pc = "done" => yielded = segments

\* every call of next() moves the position forward or returns
C16_Progress ==
    \/ pc = "LineReader" /\ pc' = "done"
    \/ /\ pc = "LineReader" /\ pc' = "LineReader"
       /\ lineReader.index # -1
       /\ lineReader'.index > lineReader.index \/ lineReader'.index = -1

\* C16: for any text LineReader terminates and yields, in order, the segments
\* between consecutive line feeds, each without its line feed and without one
\* carriage return just before it; empty lines are yielded, a last segment
\* with no line feed is yielded as it is, nothing is yielded after a final
\* line feed or for the empty text, and other carriage returns are kept.
C16_LineReaderSegments == []C16_Segments /\ [][C16_Progress]_vars

\* "a\r\n\n\r": a CRLF line, an empty line, a last segment that is a lone CR
C16_Witness ==
    /\ pc = "done"
    /\ lineReader.text = "a\r\n\n\r"
    /\ yielded = <<"a", "", "\r">>

(***************************************************************************)
(* Claims about getGitChangeType, under SpecDiff.                          *)
(***************************************************************************)
\* C17: getGitChangeType maps "removed" to DELETE, "added" to ADD, "renamed"
\* to RENAME, "modified" to MODIFY and every other status to UNKNOWN; the
\* kind of each file change pushed is the one its record's status maps to.
C17_StatusTable ==
    \A i \in 1..Len(fileChanges) :
        /\ reviews[i].status = "removed" => fileChanges[i].status = "DELETE"
        /\ reviews[i].status = "added" => fileChanges[i].status = "ADD"
        /\ reviews[i].status = "renamed" => fileChanges[i].status = "RENAME"
        /\ reviews[i].status = "modified" => fileChanges[i].status = "MODIFY"
        /\ reviews[i].status \notin {"removed", "added", "renamed", "modified"}
              => fileChanges[i].status = "UNKNOWN"

C17_Witness ==
    /\ pc = "done"
    /\ Len(fileChanges) = 2
    /\ reviews[1].status = "copied" /\ fileChanges[1].status = "UNKNOWN"
    /\ reviews[2].status = "renamed" /\ fileChanges[2].status = "RENAME"

(***************************************************************************)
(* Claims about the lines outside every hunk, under SpecGmc.               *)
(***************************************************************************)
\* the original lines of ops from k on that are outside every hunk's old
\* range as the headers write it
RECURSIVE OutsideLines(_, _)
OutsideLines(ops, k) ==
    IF k > Len(ops) THEN <<>>
    ELSE (IF ops[k].op = "K" THEN <<Ch(Letters, k)>> ELSE <<>>)
         \o OutsideLines(ops, k + 1)

\* C21 as stated: for a patch of hunks in increasing old-line order with no
\* no-newline marker, every original line outside the old ranges the headers
\* write, a written count of 0 being an empty range, is in the returned
\* content exactly once, and these lines are in their original order.
C21_AsStated ==
    (pc = "done" /\ script.kind \in {"hunks", "insert"} /\ script.markers = {})
        => LET outside == OutsideLines(script.ops, 1)
               IsOutside(l) == \E k \in 1..Len(outside) : outside[k] = l
           IN  SelectSeq(SplitLines(modifiedContent[1]), IsOutside) = outside

================================================================================
